---- MODULE Spec2Model ----
(***************************************************************************)
(* A model of RtlLanguageDetector (src/src/index.ts): locale parsing with  *)
(* the strict and the permissive regular expression, the lookup in the     *)
(* fixed set of right-to-left language codes, and the frozen array         *)
(* returned by getRtlLanguageCodes.                                        *)
(*                                                                         *)
(* A JavaScript string is a sequence of one-character strings.  A value    *)
(* that may be undefined (or null) is a sequence of length 0 or 1:         *)
(* None is undefined, Some(x) is the value x.                              *)
(***************************************************************************)
EXTENDS Integers, Sequences, FiniteSets, TLC

VARIABLES locale, op, parsed, isRtl, direction, returned, threw, rtlCodes

vars == <<locale, op, parsed, isRtl, direction, returned, threw, rtlCodes>>

None == <<>>
Some(x) == <<x>>

(***************************************************************************)
(* Characters.                                                             *)
(***************************************************************************)
LowerLetters ==
  <<"a", "b", "c", "d", "e", "f", "g", "h", "i", "j", "k", "l", "m",
    "n", "o", "p", "q", "r", "s", "t", "u", "v", "w", "x", "y", "z">>

UpperLetters ==
  <<"A", "B", "C", "D", "E", "F", "G", "H", "I", "J", "K", "L", "M",
    "N", "O", "P", "Q", "R", "S", "T", "U", "V", "W", "X", "Y", "Z">>

LowerSet == {LowerLetters[i] : i \in DOMAIN LowerLetters}
UpperSet == {UpperLetters[i] : i \in DOMAIN UpperLetters}
Digits == {"0", "1", "2", "3", "4", "5", "6", "7", "8", "9"}

Letters == LowerSet \cup UpperSet
Alnums == Letters \cup Digits

\* [a-zA-Z]
IsLetter(c) == c \in Letters
\* [a-zA-Z0-9]
IsAlnum(c) == c \in Alnums
\* [-_]
Separators == {"-", "_"}
IsSeparator(c) == c \in Separators
\* [_\-a-zA-Z]
TailChars == Separators \cup Letters
\* [.@]
IsSuffixStart(c) == c \in {".", "@"}

\* Whether the characters from..to of s are all of the class
AllIn(s, from, to, class) == \A i \in from..to : s[i] \in class

ToLowerChar(c) ==
  IF c \in UpperSet
    THEN LowerLetters[CHOOSE i \in DOMAIN UpperLetters : UpperLetters[i] = c]
    ELSE c

ToUpperChar(c) ==
  IF c \in LowerSet
    THEN UpperLetters[CHOOSE i \in DOMAIN LowerLetters : LowerLetters[i] = c]
    ELSE c

\* A toLowerCase that leaves the string as it is
toLowerCaseOmitted(s) == s

toLowerCase(s) == [i \in 1..Len(s) |-> ToLowerChar(s[i])]
toUpperCase(s) == [i \in 1..Len(s) |-> ToUpperChar(s[i])]

\* s.replace(/[-_]/, ''): without the g flag only the first is removed
StripFirstSeparator(s) ==
  LET seps == {i \in 1..Len(s) : IsSeparator(s[i])}
  IN  IF seps = {} THEN s
      ELSE LET f == CHOOSE i \in seps : \A j \in seps : i <= j
           IN  SubSeq(s, 1, f - 1) \o SubSeq(s, f + 1, Len(s))

\* s.replace(/[-_]/g, '')
StripSeparators(s) == SelectSeq(s, LAMBDA c : ~IsSeparator(c))

\* s.split(/[.]/)[0]: the part of s before the first "."
SplitFirstDot(s) ==
  LET stops == {i \in 1..Len(s) : s[i] = "."}
  IN  IF stops = {} THEN s
      ELSE SubSeq(s, 1, (CHOOSE i \in stops : \A j \in stops : i <= j) - 1)

\* s.split(/[.@]/)[0]: the part of s before the first "." or "@"
SplitFirst(s) ==
  LET stops == {i \in 1..Len(s) : IsSuffixStart(s[i])}
  IN  IF stops = {} THEN s
      ELSE SubSeq(s, 1, (CHOOSE i \in stops : \A j \in stops : i <= j) - 1)

\* x || '' for a capture group that may be undefined
OrEmpty(g) == IF g = None THEN <<>> ELSE g[1]

(***************************************************************************)
(* The two regular expressions.  RegExp.exec returns null (None) or the    *)
(* capture groups of the first match the backtracking search finds; a      *)
(* group that took no part in the match is undefined (None).               *)
(***************************************************************************)
LangMin == 2
LangMax == 3
CountryMin == 2
CountryMax == 3

\* hi, hi-1, ..., lo: the order in which a greedy {lo,hi} tries its counts
Descending(hi, lo) == [i \in 1..(hi - lo + 1) |-> hi - i + 1]

\* Whether the strict pattern matches all of s with a language of l letters,
\* a country group of c letters (c = 0: the optional group is skipped) and
\* the variant group present (v) or skipped.
StrictTry(s, l, c, v) ==
  LET n == Len(s)
      p == IF c = 0 THEN l ELSE l + 1 + c
  IN  /\ l <= n
      /\ AllIn(s, 1, l, Letters)
      /\ (c # 0) => (/\ p <= n
                     /\ IsSeparator(s[l + 1])
                     /\ AllIn(s, l + 2, p, Letters))
      /\ IF v
           THEN /\ p + 2 <= n
                /\ IsSeparator(s[p + 1])
                /\ AllIn(s, p + 2, n, Alnums)
           ELSE p = n

\* The alternatives of the strict pattern in the order backtracking tries
\* them: quantifiers are greedy, so longer counts come first and an optional
\* group is entered before it is skipped.
StrictAttempts ==
  LET ls == Descending(LangMax, LangMin)
      cs == Descending(CountryMax, CountryMin) \o <<0>>
      vs == <<TRUE, FALSE>>
  IN  [k \in 1..(Len(ls) * Len(cs) * Len(vs)) |->
        [l |-> ls[((k - 1) \div (Len(cs) * Len(vs))) + 1],
         c |-> cs[(((k - 1) \div Len(vs)) % Len(cs)) + 1],
         v |-> vs[((k - 1) % Len(vs)) + 1]]]

\* /^([a-zA-Z]{2,3})(?:[-_]([a-zA-Z]{2,3}))?(?:[-_]([a-zA-Z0-9]+))?$/.exec(s)
REGEX_PARSE_LOCALE_STRICT(s) ==
  LET hits == {k \in DOMAIN StrictAttempts :
                 StrictTry(s, StrictAttempts[k].l, StrictAttempts[k].c,
                           StrictAttempts[k].v)}
  IN  IF hits = {} THEN None
      ELSE LET a == StrictAttempts[CHOOSE k \in hits : \A j \in hits : k <= j]
           IN  Some([g1 |-> Some(SubSeq(s, 1, a.l)),
                     g2 |-> IF a.c = 0 THEN None
                            ELSE Some(SubSeq(s, a.l + 2, a.l + 1 + a.c))])

\* The length of the longest prefix of s whose characters are all of the class
LeadingRun(s, class) ==
  CHOOSE k \in 0..Len(s) :
    AllIn(s, 1, k, class) /\ (k = Len(s) \/ s[k + 1] \notin class)

\* /^([a-zA-Z]*?)([_\-a-zA-Z]*)$/.exec(s): a lazy first group takes no
\* letter, since the second group accepts all of them
PermissiveLazy(s) ==
  IF AllIn(s, 1, Len(s), TailChars)
    THEN Some([g1 |-> Some(<<>>), g2 |-> Some(s)])
    ELSE None

\* /^([a-zA-Z]*)([_\-a-zA-Z]*)$/.exec(s): the first group is greedy and the
\* second accepts every letter, so the first takes the whole leading run of
\* letters and a shorter first group cannot rescue a failed match.
REGEX_PARSE_LOCALE_PERMISSIVE(s) ==
  LET k == LeadingRun(s, Letters)
  IN  IF AllIn(s, k + 1, Len(s), TailChars)
        THEN Some([g1 |-> Some(SubSeq(s, 1, k)),
                   g2 |-> Some(SubSeq(s, k + 1, Len(s)))])
        ELSE None

(***************************************************************************)
(* The set of right-to-left language codes, in insertion order.            *)
(***************************************************************************)
\* The set without the legacy Hebrew code and without Syriac
RtlCodesIncomplete ==
  << <<"a", "e">>, <<"a", "r">>, <<"a", "r", "c">>, <<"b", "c", "c">>,
     <<"b", "q", "i">>, <<"c", "k", "b">>, <<"d", "v">>, <<"f", "a">>,
     <<"g", "l", "k">>, <<"h", "e">>, <<"k", "d">>,
     <<"k", "u">>, <<"m", "z", "n">>, <<"n", "q", "o">>, <<"p", "k">>,
     <<"p", "n", "b">>, <<"p", "r", "s">>, <<"p", "s">>, <<"s", "d">>,
     <<"u", "g">>, <<"u", "r">>, <<"y", "i">> >>

RTL_LANGUAGE_CODES ==
  << <<"a", "e">>, <<"a", "r">>, <<"a", "r", "c">>, <<"b", "c", "c">>,
     <<"b", "q", "i">>, <<"c", "k", "b">>, <<"d", "v">>, <<"f", "a">>,
     <<"g", "l", "k">>, <<"h", "e">>, <<"i", "w">>, <<"k", "d">>,
     <<"k", "u">>, <<"m", "z", "n">>, <<"n", "q", "o">>, <<"p", "k">>,
     <<"p", "n", "b">>, <<"p", "r", "s">>, <<"p", "s">>, <<"s", "d">>,
     <<"s", "y", "r">>, <<"u", "g">>, <<"u", "r">>, <<"y", "i">> >>

\* Set.prototype.has
Has(set, x) == \E i \in DOMAIN set : set[i] = x

\* Array.from(set): a new array of the members in insertion order
ArrayFrom(set) == set

(***************************************************************************)
(* The public functions.                                                   *)
(***************************************************************************)
MinLanguageLength == 2

\* Only the permissive pattern, with no strict attempt before it
MatchesPermissiveOnly(normalized) == REGEX_PARSE_LOCALE_PERMISSIVE(normalized)

\* STRICT.exec(normalized) ?? PERMISSIVE.exec(normalized)
Matches(normalized) ==
  LET strict == REGEX_PARSE_LOCALE_STRICT(normalized)
  IN  IF strict # None THEN strict
      ELSE REGEX_PARSE_LOCALE_PERMISSIVE(normalized)

\* matches?.[1]: undefined when there is no match, and never an error
FirstGroup(matches) ==
  IF matches = None THEN [raised |-> FALSE, value |-> None]
  ELSE [raised |-> FALSE, value |-> matches[1].g1]

\* A check that rejects only the empty language
LanguageEmpty(language) == Len(language) = 0

\* language.length < 2
LanguageTooShort(language) == Len(language) < MinLanguageLength

\* Whether parseLocale(s) ends in an error instead of returning
parseLocaleRaises(s) ==
  s # <<>> /\ FirstGroup(Matches(SplitFirst(s))).raised

parseLocale(s) ==
  IF s = <<>> THEN None
  ELSE
    LET normalized == SplitFirst(s)
        matches == Matches(normalized)
    IN  IF OrEmpty(FirstGroup(matches).value) = <<>> THEN None
        ELSE
          LET language == toLowerCase(OrEmpty(matches[1].g1))
              rawCountryCode == OrEmpty(matches[1].g2)
              countryCode == toUpperCase(StripSeparators(rawCountryCode))
          IN  IF LanguageTooShort(language) THEN None
              ELSE Some([language |-> language,
                         countryCode |-> IF countryCode = <<>> THEN None
                                         ELSE Some(countryCode)])

\* An isRtlLanguage that answers true when the locale does not parse
isRtlLanguageOpenWorld(s) ==
  LET p == parseLocale(s)
  IN  IF p # None THEN Has(rtlCodes, p[1].language) ELSE TRUE

isRtlLanguage(s) ==
  LET p == parseLocale(s)
  IN  IF p # None THEN Has(rtlCodes, p[1].language) ELSE FALSE

\* A getTextDirection that answers "auto" when the locale does not parse
getTextDirectionAuto(s) ==
  IF parseLocale(s) = None THEN "auto"
  ELSE IF isRtlLanguage(s) THEN "rtl" ELSE "ltr"

getTextDirection(s) == IF isRtlLanguage(s) THEN "rtl" ELSE "ltr"

\* An Object.freeze that returns the array unfrozen
ObjectFreezeOmitted(array) == [items |-> array, frozen |-> FALSE]

\* Object.freeze(array): the same elements, and the array is frozen
ObjectFreeze(array) == [items |-> array, frozen |-> TRUE]

getRtlLanguageCodes == ObjectFreeze(ArrayFrom(rtlCodes))

\* Array.prototype.push on an array a caller holds: a frozen array rejects
\* the new element with a TypeError and stays as it is.
ArrayPush(array, x) ==
  IF array.frozen
    THEN [array |-> array, threw |-> TRUE]
    ELSE [array |-> [array EXCEPT !.items = Append(@, x)], threw |-> FALSE]

(***************************************************************************)
(* The inputs.                                                             *)
(***************************************************************************)
MaxLen == 3
MaxTail == 4

Strings(alphabet, lo, hi) == UNION {[1..n -> alphabet] : n \in lo..hi}

\* Every string of at most MaxLen characters over letters of both cases, a
\* digit, both separators, both suffix starts and another symbol
Alphabet == {"a", "r", "A", "S", "1", "-", "_", ".", "@", "!"}
ShortInputs == Strings(Alphabet, 0, MaxLen)

\* Tags: a run of letters followed by at most MaxTail characters of
\* subtags and separators
TagLetters == {"a", "R"}
TailAlphabet == {"-", "_", "s", "1"}
Tags(lo, hi, maxTail) ==
  {lang \o tail : lang \in Strings(TagLetters, lo, hi),
                  tail \in Strings(TailAlphabet, 0, maxTail)}
TagInputs == Tags(1, LangMax, MaxTail)

\* Tags followed by an encoding or keyword suffix
SuffixInputs ==
  {tag \o <<stop>> \o rest :
     tag \in Tags(LangMin, LangMin, MaxLen),
     stop \in {".", "@"},
     rest \in {<<>>, <<"s">>, <<"-", "1">>}}

Inputs == ShortInputs \cup TagInputs \cup SuffixInputs

\* The inputs whose every spelling in upper and lower case is tried: the
\* short strings, the tags with a tail of at most MaxLen characters and the
\* tags with a suffix
CaseInputs == ShortInputs \cup Tags(1, LangMax, MaxLen) \cup SuffixInputs

\* Every language-only tag of lower-case letters, and tags of mixed case
LanguageOnlyInputs ==
  Strings(LowerSet, LangMin, LangMax)
    \cup Strings({"a", "r", "c", "A", "R", "C"}, LangMin, LangMax)

NoArray == [items |-> <<>>, frozen |-> FALSE]

(***************************************************************************)
(* The state: the caller's input string, the last call and what it         *)
(* returned, the array the caller holds, and the detector's set.           *)
(***************************************************************************)
InitWith(inputs) ==
  /\ locale \in inputs
  /\ op = "none"
  /\ parsed = None
  /\ isRtl = FALSE
  /\ direction = "ltr"
  /\ returned = NoArray
  /\ threw = FALSE
  /\ rtlCodes = RTL_LANGUAGE_CODES

Init == InitWith(Inputs)

InitLanguageOnly == InitWith(LanguageOnlyInputs)

InitCase == InitWith(CaseInputs)

\* A call's return value is held until the next call; a call that raises
\* an error returns nothing.
CallParseLocale ==
  /\ op' = "parseLocale"
  /\ threw' = parseLocaleRaises(locale)
  /\ parsed' = IF threw' THEN None ELSE parseLocale(locale)
  /\ isRtl' = FALSE
  /\ direction' = "ltr"
  /\ UNCHANGED <<locale, returned, rtlCodes>>

CallIsRtlLanguage ==
  /\ op' = "isRtlLanguage"
  /\ threw' = parseLocaleRaises(locale)
  /\ isRtl' = IF threw' THEN FALSE ELSE isRtlLanguage(locale)
  /\ parsed' = None
  /\ direction' = "ltr"
  /\ UNCHANGED <<locale, returned, rtlCodes>>

CallGetTextDirection ==
  /\ op' = "getTextDirection"
  /\ threw' = parseLocaleRaises(locale)
  /\ direction' = IF threw' THEN "ltr" ELSE getTextDirection(locale)
  /\ parsed' = None
  /\ isRtl' = FALSE
  /\ UNCHANGED <<locale, returned, rtlCodes>>

CallGetRtlLanguageCodes ==
  /\ op' = "getRtlLanguageCodes"
  /\ returned' = getRtlLanguageCodes
  /\ parsed' = None
  /\ isRtl' = FALSE
  /\ direction' = "ltr"
  /\ threw' = FALSE
  /\ UNCHANGED <<locale, rtlCodes>>

\* The caller tries to add an element to the array it was given.
MutateReturned ==
  /\ returned # NoArray
  /\ op' = "push"
  /\ LET r == ArrayPush(returned, <<"t", "e", "s", "t">>)
     IN  /\ returned' = r.array
         /\ threw' = r.threw
  /\ parsed' = None
  /\ isRtl' = FALSE
  /\ direction' = "ltr"
  /\ UNCHANGED <<locale, rtlCodes>>

Next ==
  \/ CallParseLocale
  \/ CallIsRtlLanguage
  \/ CallGetTextDirection
  \/ CallGetRtlLanguageCodes
  \/ MutateReturned

Spec == Init /\ [][Next]_vars

SpecLanguageOnly == InitLanguageOnly /\ [][Next]_vars

SpecCase == InitCase /\ [][Next]_vars

(***************************************************************************)
(* Properties.                                                             *)
(***************************************************************************)

\* The 24 codes the specification lists as right-to-left
CanonicalCodes ==
  << <<"a", "e">>, <<"a", "r">>, <<"a", "r", "c">>, <<"b", "c", "c">>,
     <<"b", "q", "i">>, <<"c", "k", "b">>, <<"d", "v">>, <<"f", "a">>,
     <<"g", "l", "k">>, <<"h", "e">>, <<"i", "w">>, <<"k", "d">>,
     <<"k", "u">>, <<"m", "z", "n">>, <<"n", "q", "o">>, <<"p", "k">>,
     <<"p", "n", "b">>, <<"p", "r", "s">>, <<"p", "s">>, <<"s", "d">>,
     <<"s", "y", "r">>, <<"u", "g">>, <<"u", "r">>, <<"y", "i">> >>

CanonicalSet == {CanonicalCodes[i] : i \in DOMAIN CanonicalCodes}

\* s is a language-only tag: 2 or 3 letters
IsLanguageOnly(s) == Len(s) \in 2..3 /\ \A i \in 1..Len(s) : IsLetter(s[i])

\* C1: for a language-only tag of 2-3 letters, isRtlLanguage returns true
\* exactly when the lower-cased tag is one of the 24 canonical codes.
C1_Membership ==
  (op = "isRtlLanguage" /\ IsLanguageOnly(locale))
    => (isRtl <=> toLowerCase(locale) \in CanonicalSet)

\* isRtlLanguage has answered true for the canonical code syr
C1_Witness ==
  op = "isRtlLanguage" /\ locale = <<"s", "y", "r">> /\ isRtl

\* s is lang, one separator, COUNTRY: lang of l letters and COUNTRY of c
\* characters that are all of the class
IsLangCountry(s, l, c, class) ==
  /\ Len(s) = l + 1 + c
  /\ \A i \in 1..l : IsLetter(s[i])
  /\ IsSeparator(s[l + 1])
  /\ \A i \in (l + 2)..Len(s) : s[i] \in class

LangOf(s, l) == SubSeq(s, 1, l)
CountryOf(s, l) == SubSeq(s, l + 2, Len(s))

\* C2 as stated: for lang-COUNTRY or lang_COUNTRY with lang of 2-3 letters
\* and COUNTRY of 2-3 letters or digits, parseLocale returns the lower-cased
\* lang and the upper-cased COUNTRY.
C2_AlnumCountry ==
  op = "parseLocale" =>
    \A l \in 2..3, c \in 2..3 :
      IsLangCountry(locale, l, c, Alnums) =>
        parsed = Some([language |-> toLowerCase(LangOf(locale, l)),
                       countryCode |-> Some(toUpperCase(CountryOf(locale, l)))])

\* C2 amended: for lang-COUNTRY or lang_COUNTRY with lang of 2-3 letters,
\* parseLocale returns the lower-cased lang, and as countryCode the
\* upper-cased COUNTRY when COUNTRY is 2-3 letters, and no countryCode when
\* COUNTRY is 2-3 letters or digits with a digit among them.
C2_LetterCountry ==
  op = "parseLocale" =>
    \A l \in 2..3, c \in 2..3 :
      IsLangCountry(locale, l, c, Alnums) =>
        parsed = Some([language |-> toLowerCase(LangOf(locale, l)),
                       countryCode |->
                         IF IsLangCountry(locale, l, c, Letters)
                           THEN Some(toUpperCase(CountryOf(locale, l)))
                           ELSE None])

\* parseLocale has returned ar and SS for aR_ss
C2_Witness ==
  /\ op = "parseLocale"
  /\ locale = <<"a", "R", "_", "s", "s">>
  /\ parsed = Some([language |-> <<"a", "r">>,
                    countryCode |-> Some(<<"S", "S">>)])

MaxRun == 3

OtherSeparator(c) == IF c = "-" THEN "_" ELSE "-"

\* The separators of s that stand alone: no separator next to them
SingleSeparators(s) ==
  {i \in 1..Len(s) :
     /\ IsSeparator(s[i])
     /\ (i > 1 => ~IsSeparator(s[i - 1]))
     /\ (i < Len(s) => ~IsSeparator(s[i + 1]))}

\* The strings made from s by replacing one separator by the other
\* separator character, or one single separator by a run of 2..MaxRun
SeparatorVariants(s) ==
  {[s EXCEPT ![i] = OtherSeparator(s[i])] :
     i \in {j \in 1..Len(s) : IsSeparator(s[j])}}
  \cup
  {SubSeq(s, 1, i - 1) \o run \o SubSeq(s, i + 1, Len(s)) :
     i \in SingleSeparators(s), run \in Strings({"-", "_"}, 2, MaxRun)}

\* C3: isRtlLanguage returns the same boolean for s and for every string
\* made from s by replacing a separator by the other separator character or
\* a single separator by a run of two or more separators.
C3_SeparatorsAlike ==
  op = "isRtlLanguage" =>
    \A t \in SeparatorVariants(locale) : isRtlLanguage(t) = isRtl

\* s with every run of separators cut down to its first character
CollapseRuns(s) ==
  LET keep == {i \in 1..Len(s) :
                 ~(IsSeparator(s[i]) /\ i > 1 /\ IsSeparator(s[i - 1]))}
      nth(k) == CHOOSE i \in keep : Cardinality({j \in keep : j <= i}) = k
  IN  [k \in 1..Cardinality(keep) |-> s[nth(k)]]

HasRun(s) == \E i \in 2..Len(s) : IsSeparator(s[i]) /\ IsSeparator(s[i - 1])

\* C4: an input with runs of repeated separators parses to the same
\* language and countryCode as the input with every run replaced by a
\* single separator.
C4_RunsCollapse ==
  (op = "parseLocale" /\ HasRun(locale))
    => parsed = parseLocale(CollapseRuns(locale))

\* s is a language subtag of l letters followed by subtags of letters and
\* digits, each after a single separator
IsCompound(s, l) ==
  /\ l <= Len(s)
  /\ \A i \in 1..l : IsLetter(s[i])
  /\ \A i \in (l + 1)..Len(s) : IsAlnum(s[i]) \/ IsSeparator(s[i])
  /\ l < Len(s) => IsSeparator(s[l + 1])
  /\ \A i \in (l + 1)..Len(s) :
       IsSeparator(s[i]) => (i < Len(s) /\ IsAlnum(s[i + 1]))

\* C5: for a language subtag of 2-3 letters followed by any number of
\* separator-delimited subtags of letters and digits, isRtlLanguage returns
\* true exactly when the lower-cased language subtag is a canonical code.
C5_LanguageDecides ==
  op = "isRtlLanguage" =>
    \A l \in 2..3 :
      IsCompound(locale, l) =>
        (isRtl <=> toLowerCase(LangOf(locale, l)) \in CanonicalSet)

\* C6: a string that parseLocale does not parse makes isRtlLanguage return
\* false and getTextDirection return "ltr", and none of the three functions
\* raises an error on any string.
C6_ClosedWorld ==
  /\ op \in {"parseLocale", "isRtlLanguage", "getTextDirection"} => ~threw
  /\ parseLocale(locale) = None =>
       /\ op = "isRtlLanguage" => ~isRtl
       /\ op = "getTextDirection" => direction = "ltr"

\* getTextDirection has returned "ltr" for 111, which does not parse
C6_Witness ==
  /\ op = "getTextDirection"
  /\ locale = <<"1", "1", "1">>
  /\ parseLocale(locale) = None
  /\ direction = "ltr"
  /\ ~threw

\* The number of letters s starts with
LetterPrefixLen(s) ==
  Cardinality({k \in 1..Len(s) : \A i \in 1..k : IsLetter(s[i])})

\* C7: parseLocale returns nothing for the empty string, for separators
\* only, for a leading separator and for a single leading letter; a
\* language it returns is made of at least 2 lower-case letters.
C7_UsableLanguage ==
  op = "parseLocale" =>
    /\ (\/ locale = <<>>
        \/ \A i \in 1..Len(locale) : IsSeparator(locale[i])
        \/ IsSeparator(locale[1])
        \/ LetterPrefixLen(locale) = 1) => parsed = None
    /\ parsed # None =>
         /\ Len(parsed[1].language) >= 2
         /\ \A i \in 1..Len(parsed[1].language) :
              parsed[1].language[i] \in LowerSet

\* parseLocale has returned nothing for a-ss
C7_Witness ==
  op = "parseLocale" /\ locale = <<"a", "-", "s", "s">> /\ parsed = None

\* s is a language of at least 2 letters followed by separators only
IsLanguageThenSeparators(s) ==
  /\ LetterPrefixLen(s) >= 2
  /\ LetterPrefixLen(s) < Len(s)
  /\ \A i \in (LetterPrefixLen(s) + 1)..Len(s) : IsSeparator(s[i])

\* C8: a countryCode parseLocale returns is a non-empty upper-case string
\* with no separator in it, and a language followed by separators only is
\* returned with no countryCode.
C8_CountryCode ==
  (op = "parseLocale" /\ parsed # None) =>
    /\ parsed[1].countryCode # None =>
         LET cc == parsed[1].countryCode[1]
         IN  /\ cc # <<>>
             /\ \A i \in 1..Len(cc) :
                  ~IsSeparator(cc[i]) /\ cc[i] \notin LowerSet
    /\ IsLanguageThenSeparators(locale) =>
         parsed = Some([language |->
                          toLowerCase(SubSeq(locale, 1, LetterPrefixLen(locale))),
                        countryCode |-> None])

\* parseLocale has returned ar with no countryCode for aR__
C8_Witness ==
  /\ op = "parseLocale"
  /\ locale = <<"a", "R", "_", "_">>
  /\ parsed = Some([language |-> <<"a", "r">>, countryCode |-> None])

\* The longest prefix of s with no "." and no "@" in it
PrefixBeforeSuffix(s) ==
  SubSeq(s, 1, Cardinality({k \in 1..Len(s) :
                              \A i \in 1..k : s[i] \notin {".", "@"}}))

\* C9: parseLocale(s) is parseLocale of the prefix of s before the first
\* "." or "@".
C9_SuffixStripped ==
  op = "parseLocale" => parsed = parseLocale(PrefixBeforeSuffix(locale))

\* parseLocale has returned ar and SS for aR_ss@s
C9_Witness ==
  /\ op = "parseLocale"
  /\ locale = <<"a", "R", "_", "s", "s", "@", "s">>
  /\ parsed = Some([language |-> <<"a", "r">>,
                    countryCode |-> Some(<<"S", "S">>)])

\* C10: every attempt to add to a returned array raises an error and leaves
\* the array as it was, getRtlLanguageCodes returns the 24 canonical codes
\* in their order, and the set and the answers of isRtlLanguage stay as
\* they were.
C10_Immutable ==
  /\ rtlCodes = CanonicalCodes
  /\ op = "push" => threw
  /\ returned # NoArray =>
       /\ returned.items = CanonicalCodes
       /\ Len(returned.items) = 24
  /\ op = "isRtlLanguage" =>
       (isRtl <=> (/\ parseLocale(locale) # None
                   /\ parseLocale(locale)[1].language \in CanonicalSet))

\* An attempt to add to the returned array has raised an error
C10_Witness ==
  op = "push" /\ threw /\ returned.items = CanonicalCodes

\* The positions of the letters of s
LetterPositions(s) == {i \in 1..Len(s) : IsLetter(s[i])}

\* The strings that differ from s only in the case of letters
CaseVariants(s) ==
  {[i \in 1..Len(s) |->
      IF i \in up THEN ToUpperChar(s[i]) ELSE ToLowerChar(s[i])] :
     up \in SUBSET LetterPositions(s)}

\* C11: isRtlLanguage and parseLocale return the same for s and for every
\* string that differs from s only in the case of its letters.
C11_CaseInsensitive ==
  /\ op = "parseLocale" =>
       \A t \in CaseVariants(locale) : parseLocale(t) = parsed
  /\ op = "isRtlLanguage" =>
       \A t \in CaseVariants(locale) : isRtlLanguage(t) = isRtl

\* isRtlLanguage has answered true for aR, as it does for AR, Ar and ar
C11_Witness ==
  /\ op = "isRtlLanguage"
  /\ locale = <<"a", "R">>
  /\ isRtl
  /\ {<<"A", "R">>, <<"A", "r">>, <<"a", "r">>} \subseteq CaseVariants(locale)

\* C12: getTextDirection returns "rtl" exactly when isRtlLanguage is true
\* of the same string and "ltr" otherwise, and never another value.
C12_Direction ==
  op = "getTextDirection" =>
    /\ direction \in {"rtl", "ltr"}
    /\ direction = "rtl" <=> isRtlLanguage(locale)
    /\ direction = "ltr" <=> ~isRtlLanguage(locale)

\* getTextDirection has returned "rtl" for aR-ss
C12_Witness ==
  /\ op = "getTextDirection"
  /\ locale = <<"a", "R", "-", "s", "s">>
  /\ isRtlLanguage(locale)
  /\ direction = "rtl"

\* C13: a language parseLocale returns is the lower-cased leading run of
\* letters of the input cut at the first "." or "@", whichever pattern
\* matched; on an input both patterns accept they capture the same language.
C13_SameLanguage ==
  op = "parseLocale" =>
    LET n == PrefixBeforeSuffix(locale)
        strict == REGEX_PARSE_LOCALE_STRICT(n)
        permissive == REGEX_PARSE_LOCALE_PERMISSIVE(n)
    IN  /\ parsed # None =>
             parsed[1].language = toLowerCase(SubSeq(n, 1, LetterPrefixLen(n)))
        /\ (strict # None /\ permissive # None) =>
             strict[1].g1 = permissive[1].g1

\* parseLocale has returned ar for aR-s, which both patterns accept with
\* different country captures
C13_Witness ==
  /\ op = "parseLocale"
  /\ locale = <<"a", "R", "-", "s">>
  /\ REGEX_PARSE_LOCALE_STRICT(locale) # None
  /\ REGEX_PARSE_LOCALE_PERMISSIVE(locale) # None
  /\ REGEX_PARSE_LOCALE_STRICT(locale)[1].g2 = None
  /\ REGEX_PARSE_LOCALE_PERMISSIVE(locale)[1].g2 = Some(<<"-", "s">>)
  /\ parsed = Some([language |-> <<"a", "r">>, countryCode |-> None])

====
